---- MODULE Spec2Model ----
(***************************************************************************)
(* Model of jira_scraper.py: the retrying transport jira_get, the          *)
(* checkpoint store load_checkpoint / save_checkpoint and the page loop of *)
(* scrape_project with its output files.                                   *)
(*                                                                         *)
(* Files are records [ex, data]: ex says whether the path exists, data is  *)
(* the sequence of JSONL lines.  A line is a record [key, comments] where  *)
(* comments is the number of comments attached to the issue.               *)
(* The checkpoint paths hold records [st, startAt, processed] where st is  *)
(* "absent", "partial" (opened for writing, JSON not completely written)   *)
(* or "complete".                                                          *)
(***************************************************************************)
EXTENDS Integers, Sequences, FiniteSets, TLC

VARIABLES
    remote,       \* issues the search endpoint holds, in query order
    remoteTotal,  \* the "total" field the search endpoint reports (NoTotal: none)
    ckptFile,     \* checkpoint-<project>.json
    ckptTmp,      \* checkpoint-<project>.json.tmp
    outFile,      \* out_path
    bakFile,      \* out_path + ".bak"
    tmpFile,      \* out_path + ".tmp", the working file
    pc,           \* position of the process in scrape_project
    startAt,      \* local startAt
    processed,    \* local processed
    total,        \* local total
    issues,       \* local issues, the page being processed
    idx,          \* position of the for loop in issues (1-based)
    gstate,       \* jira_get: "idle", "running", "returned", "raised"
    attempt,      \* jira_get: local attempt
    resps,        \* jira_get: outcomes of the session.get calls issued so far
    err,          \* jira_get: the response or failure whose exception left it
    run,          \* number of runs of the process started so far
    outAtStart,   \* out_path as it was when the current run started
    bakAtStart,   \* out_path + ".bak" as it was when the current run started
    tmpAtStart,   \* the working file as it was when the current run started
    written,      \* lines appended by the current run, in order
    stopped,      \* whether the current run left the page loop (reached STOP)
    finals,       \* number of times the current run renamed the working file
    faults,       \* calls of jira_get that ended with an exception so far
    wait,         \* jira_get: milliseconds slept after the last response (0: none)
    delay,        \* jira_get: seconds of backoff_sleep before jitter after the
                  \* last response (0: backoff_sleep was not called)
    hdr,          \* Retry-After header of the last response
    otherParity,  \* parity of the responses below 400 other than 200 received
    static,       \* whether every run so far met the same remote
    ckptAtStart,  \* what load_checkpoint returned when the current run started
    saves,        \* calls of save_checkpoint the current run completed
    pages,        \* non-empty pages the current run processed to the end
    returned,     \* issues returned by the pages the current run fetched
    pageCap       \* the most issues the search endpoint returns in one page

vars == <<remote, remoteTotal, ckptFile, ckptTmp, outFile, bakFile, tmpFile, pc,
          startAt, processed, total, issues, idx, gstate, attempt, resps,
          err, run, outAtStart, bakAtStart, tmpAtStart, written, stopped,
          finals, faults, wait, delay, hdr, otherParity, static, ckptAtStart,
          saves, pages, returned, pageCap>>

fileVars == <<ckptFile, ckptTmp, outFile, bakFile, tmpFile>>
memVars  == <<startAt, processed, total, issues, idx>>
getVars  == <<gstate, attempt, resps, err>>
histVars == <<outAtStart, bakAtStart, tmpAtStart, written, stopped, finals>>
envVars  == <<remote, remoteTotal, faults, pageCap>>
auxVars  == <<wait, delay, hdr, otherParity>>
runVars  == <<static, ckptAtStart, saves, pages, returned>>

----------------------------------------------------------------------------
(* Bounds of the model *)

Keys == {"A", "B", "C"}

\* number of runs of the process in one behaviour
MaxRuns == 2
\* largest page the server returns, whatever maxResults asks for
ServerCap == 2
\* responses that are neither 200, 429, 4xx nor 5xx allowed in one jira_get call
MaxOther == 1
\* calls of jira_get that end with an exception in one behaviour of scrape_project
MaxFaults == 1
\* comments each issue of the remote carries
RemoteComments == 1

(* Program constants *)

DEFAULT_MAX_RESULTS == 100
max_attempts == 6
NoTotal == -1
\* backoff_sleep(attempt, base=1.0, cap=60.0), in seconds
base == 1
cap == 60
\* the wait of a 429 whose Retry-After is not an integer, in seconds
DefaultRetryAfter == 60

----------------------------------------------------------------------------
(* Values *)

Min(a, b) == IF a <= b THEN a ELSE b

Absent == [ex |-> FALSE, data |-> <<>>]
File(d) == [ex |-> TRUE, data |-> d]

NoCkpt == [st |-> "absent", startAt |-> 0, processed |-> {}]
PartialCkpt == [st |-> "partial", startAt |-> 0, processed |-> {}]
Ckpt(s, p) == [st |-> "complete", startAt |-> s, processed |-> p]

\* The search endpoint holds each issue once and returns the issues in the
\* order of the query (ORDER BY created ASC): a remote is a subset of Keys in
\* creation order.
Created(k) == CASE k = "A" -> 1 [] k = "B" -> 2 [] OTHER -> 3

Remotes ==
    {s \in UNION {[1..n -> Keys] : n \in 0..Cardinality(Keys)} :
        \A i, j \in 1..Len(s) : i < j => Created(s[i]) < Created(s[j])}

Totals(r) == {NoTotal} \cup (0..(Len(r) + 1))

KeysOf(lines) == {lines[i].key : i \in 1..Len(lines)}

----------------------------------------------------------------------------
(* Checkpointing *)

\* load_checkpoint: the parsed file, or the default when the file is absent.
\* json.load raises on a file that does not hold a complete JSON document.
load_checkpoint(f) ==
    IF f.st = "absent" THEN [ok |-> TRUE, startAt |-> 0, processed |-> {}]
    ELSE IF f.st = "partial" THEN [ok |-> FALSE, startAt |-> 0, processed |-> {}]
    ELSE [ok |-> TRUE, startAt |-> f.startAt, processed |-> f.processed]

\* save_checkpoint writing the checkpoint file in place
SaveTarget_Canonical == "canonical"

\* the path save_checkpoint opens for writing
SaveTarget == "tmp"

\* a checkpoint that keeps only the keys of the page just processed
NewCheckpoint_PageOnly(s, p) == Ckpt(s, {issues[i] : i \in 1..Len(issues)})

\* the checkpoint built after a page: {"startAt": startAt, "processed": list(processed)}
NewCheckpoint(s, p) == Ckpt(s, p)

----------------------------------------------------------------------------
(* jira_get *)

Outcomes == {"ok", "neterr", "badjson", "429", "5xx", "4xx", "other"}

\* GetStep with a non-429 4xx handled like a 5xx
GetStep_Retry4xx(o, att) ==
    CASE o = "ok" -> [g |-> "returned", a |-> att]
      [] o \in {"neterr", "badjson", "5xx", "4xx"} ->
            IF att >= max_attempts THEN [g |-> "raised", a |-> att]
            ELSE [g |-> "running", a |-> att + 1]
      [] o = "429" ->
            IF att + 1 > max_attempts THEN [g |-> "raised", a |-> att + 1]
            ELSE [g |-> "running", a |-> att + 1]
      [] OTHER -> [g |-> "running", a |-> att]

\* One iteration of the while loop of jira_get on outcome o of session.get with
\* the local attempt = att: g is "returned" (return r.json()), "raised" (an
\* exception leaves jira_get) or "running" (continue), a the new attempt.
GetStep(o, att) ==
    CASE o = "ok" -> [g |-> "returned", a |-> att]
      [] o \in {"neterr", "badjson", "5xx"} ->
            IF att >= max_attempts THEN [g |-> "raised", a |-> att]
            ELSE [g |-> "running", a |-> att + 1]
      [] o = "429" ->
            IF att + 1 > max_attempts THEN [g |-> "raised", a |-> att + 1]
            ELSE [g |-> "running", a |-> att + 1]
      [] o = "4xx" -> [g |-> "raised", a |-> att]
      [] OTHER -> [g |-> "running", a |-> att]

\* what a finished call of jira_get shows its caller: g and, when an exception
\* left it, the response or failure that raised it
GetResult(c) == [g |-> c.g, err |-> IF c.g = "raised" THEN c.last ELSE "none"]

\* the configurations [g, a, last] the loop of jira_get can be in, from S
RECURSIVE GetClosure(_)
GetClosure(S) ==
    LET T == S \cup {[g |-> GetStep(o, c.a).g, a |-> GetStep(o, c.a).a, last |-> o] :
                        c \in {d \in S : d.g = "running"}, o \in Outcomes}
    IN IF T = S THEN S ELSE GetClosure(T)

\* every way a call of jira_get can end, over all sequences of outcomes
GetResults ==
    {GetResult(c) : c \in {d \in GetClosure({[g |-> "running", a |-> 0, last |-> "none"]}) :
                              d.g # "running"}}

\* Retry-After headers of a 429: none, the empty string, a text that is not an
\* integer (an HTTP date), or a number of seconds
NoHeader == [kind |-> "none", n |-> 0]

RetryAfterSecs == {0, 5}

Headers ==
    {NoHeader, [kind |-> "empty", n |-> 0], [kind |-> "text", n |-> 0]}
        \cup {[kind |-> "int", n |-> n] : n \in RetryAfterSecs}

\* values of random.random(), in percent
RandomPct == {0, 99}

\* backoff_sleep without the cap
Backoff_NoCap(k) == base * 2^k

\* line 38: the delay of backoff_sleep before jitter, in seconds
Backoff(k) == Min(cap, base * 2^k)

\* line 40: sleep * (0.5 + random.random() * 0.5), in milliseconds
Jitter(d, r) == d * 5 * (100 + r)

\* the wait of a 429 with Retry-After header h without the added second
RetryAfterWait_NoMargin(h) == IF h.kind = "int" THEN h.n - 1 ELSE DefaultRetryAfter

\* lines 86-89: wait = int(ra), or 60 when ra is not an integer
RetryAfterWait(h) == IF h.kind = "int" THEN h.n ELSE DefaultRetryAfter

NoSleep == [wait |-> 0, delay |-> 0]

BackoffSleep(att, r) == [wait |-> Jitter(Backoff(att), r), delay |-> Backoff(att)]

\* what jira_get sleeps after outcome o with header h at attempt = att, with
\* r the value random.random() returns: the milliseconds and, when
\* backoff_sleep is called, its delay before jitter
SleepOf(o, h, att, r) ==
    CASE o \in {"neterr", "badjson", "5xx"} ->
            IF att >= max_attempts THEN NoSleep ELSE BackoffSleep(att, r)
      [] o = "429" ->
            IF h.kind \in {"int", "text"}
            THEN [wait |-> (RetryAfterWait(h) + 1) * 1000, delay |-> 0]
            ELSE BackoffSleep(att, r)
      [] OTHER -> NoSleep

\* responses of the current call that were neither 200, 429, 4xx nor 5xx
Others == Cardinality({i \in 1..Len(resps) : resps[i] = "other"})

\* lines 59-107, one iteration of the loop: session.get and the handling of
\* its outcome
GetAttempt ==
    /\ pc = "get"
    /\ gstate = "running"
    /\ \E o \in Outcomes :
         /\ o = "other" => Others < MaxOther
         /\ LET res == GetStep(o, attempt)
            IN /\ gstate' = res.g
               /\ attempt' = res.a
               /\ resps' = Append(resps, o)
               /\ err' = IF res.g = "raised" THEN o ELSE "none"
         /\ \E h \in IF o = "429" THEN Headers ELSE {NoHeader} :
              \E r \in IF SleepOf(o, h, attempt, 0).delay > 0 THEN RandomPct ELSE {0} :
                 /\ hdr' = h
                 /\ wait' = SleepOf(o, h, attempt, r).wait
                 /\ delay' = SleepOf(o, h, attempt, r).delay
    /\ UNCHANGED <<pc, fileVars, memVars, run, otherParity, runVars, histVars, envVars>>

\* lines 57-58: the caller starts another logical fetch
GetCall ==
    /\ pc = "get"
    /\ gstate \in {"returned", "raised"}
    /\ gstate' = "running"
    /\ attempt' = 0
    /\ resps' = <<>>
    /\ err' = "none"
    /\ wait' = 0
    /\ delay' = 0
    /\ hdr' = NoHeader
    /\ UNCHANGED <<pc, fileVars, memVars, run, otherParity, runVars, histVars, envVars>>

\* lines 57-107 as one step of scrape_project: a whole call of jira_get,
\* over any sequence of outcomes of its session.get calls
JiraGet ==
    /\ pc \in {"page_get", "comment_get"}
    /\ gstate = "running"
    /\ \E res \in GetResults :
         /\ res.g = "raised" => faults < MaxFaults
         /\ gstate' = res.g
         /\ err' = res.err
         /\ faults' = IF res.g = "raised" THEN faults + 1 ELSE faults
    /\ UNCHANGED <<pc, attempt, resps, fileVars, memVars, run, auxVars, runVars,
                   histVars, remote, remoteTotal, pageCap>>

----------------------------------------------------------------------------
(* scrape_project *)

\* the page a search endpoint that returns at most c issues at a time returns
\* for startAt = s and maxResults = m
PageCapped(r, s, m, c) ==
    IF s >= Len(r) THEN <<>>
    ELSE SubSeq(r, s + 1, Min(Len(r), s + Min(m, c)))

\* the page the search endpoint returns for startAt = s and maxResults = m
Page(r, s, m) == PageCapped(r, s, m, ServerCap)

\* the working file opened in write mode, which truncates it
OpenWorking_Truncate(f) == File(<<>>)

\* line 164: open(out_tmp, "a") creates the working file or keeps its lines
OpenWorking(f) == File(f.data)

\* lines 153-167: load the checkpoint, open the working file in append mode
StartRun ==
    /\ pc \in {"idle", "done", "crashed", "failed"}
    /\ run < MaxRuns
    /\ run' = run + 1
    /\ \E r \in Remotes : \E t \in Totals(r) :
         /\ remote' = r
         /\ remoteTotal' = t
         /\ static' = (run = 0 \/ (static /\ r = remote /\ t = remoteTotal))
    /\ ckptAtStart' = load_checkpoint(ckptFile)
    /\ saves' = 0
    /\ pages' = 0
    /\ returned' = 0
    /\ UNCHANGED <<faults, pageCap, auxVars>>
    /\ outAtStart' = outFile
    /\ bakAtStart' = bakFile
    /\ written' = <<>>
    /\ stopped' = FALSE
    /\ finals' = 0
    /\ total' = NoTotal
    /\ issues' = <<>>
    /\ idx' = 0
    /\ LET cp == load_checkpoint(ckptFile)
       IN IF cp.ok
          THEN /\ startAt' = cp.startAt
               /\ processed' = cp.processed
               /\ tmpFile' = OpenWorking(tmpFile)
               /\ tmpAtStart' = File(tmpFile.data)
               /\ pc' = "page_get"
               /\ gstate' = "running"
          ELSE /\ UNCHANGED <<startAt, processed, tmpFile>>
               /\ tmpAtStart' = tmpFile
               /\ pc' = "failed"
               /\ gstate' = "idle"
    /\ attempt' = 0
    /\ resps' = <<>>
    /\ err' = "none"
    /\ UNCHANGED <<ckptFile, ckptTmp, outFile, bakFile>>

\* an empty page ends the loop only when total does not promise more
PageContinues_TrustTotal(page, tot, s) == page # <<>> \/ (tot # NoTotal /\ s < tot)

\* whether the loop goes on after a page that came back with these issues
PageContinues(page, tot, s) == page # <<>>

\* lines 173-181: capture total, take the issues, leave the loop on an empty page
PageRecv ==
    /\ pc = "page_get"
    /\ gstate = "returned"
    /\ LET page == PageCapped(remote, startAt, DEFAULT_MAX_RESULTS, pageCap)
           tot == IF total = NoTotal THEN remoteTotal ELSE total
       IN /\ total' = tot
          /\ issues' = page
          /\ IF PageContinues(page, tot, startAt)
             THEN /\ pc' = "item"
                  /\ idx' = 1
                  /\ stopped' = FALSE
             ELSE /\ pc' = "finalize"
                  /\ idx' = 0
                  /\ stopped' = TRUE
    /\ gstate' = "idle"
    /\ attempt' = 0
    /\ resps' = <<>>
    /\ err' = "none"
    /\ returned' = returned + Len(PageCapped(remote, startAt, DEFAULT_MAX_RESULTS, pageCap))
    /\ UNCHANGED <<fileVars, startAt, processed, run, auxVars, envVars, static,
                   ckptAtStart, saves, pages,
                   outAtStart, bakAtStart, tmpAtStart, written, finals>>

\* the page loop wrapped in try/finally: a failed page fetch finalizes too
PageFail_Finalizes ==
    /\ pc = "page_get"
    /\ gstate = "raised"
    /\ pc' = "finalize"
    /\ gstate' = "idle"
    /\ attempt' = 0
    /\ resps' = <<>>
    /\ err' = "none"
    /\ UNCHANGED <<fileVars, memVars, run, auxVars, runVars, histVars, envVars>>

\* line 172: an exception of jira_get leaves scrape_project and ends the process
PageFail ==
    /\ pc = "page_get"
    /\ gstate = "raised"
    /\ pc' = "failed"
    /\ gstate' = "idle"
    /\ attempt' = 0
    /\ resps' = <<>>
    /\ err' = "none"
    /\ UNCHANGED <<fileVars, memVars, run, auxVars, runVars, histVars, envVars>>

\* the membership test dropped: no issue counts as processed
IsProcessed_Never(key, done) == FALSE

\* the membership test inverted
IsProcessed_Inverted(key, done) == key \notin done

\* line 185: key in processed
IsProcessed(key, done) == key \in done

\* lines 183-188: an issue whose key is in processed is skipped
ItemSkip ==
    /\ pc = "item"
    /\ idx <= Len(issues)
    /\ IsProcessed(issues[idx], processed)
    /\ idx' = idx + 1
    /\ UNCHANGED <<pc, fileVars, startAt, processed, total, issues, getVars, run, auxVars,
                   runVars,
                   histVars, envVars>>

\* lines 189-192: call fetch_comments, which calls jira_get
ItemFetch ==
    /\ pc = "item"
    /\ idx <= Len(issues)
    /\ ~IsProcessed(issues[idx], processed)
    /\ pc' = "comment_get"
    /\ gstate' = "running"
    /\ attempt' = 0
    /\ resps' = <<>>
    /\ err' = "none"
    /\ UNCHANGED <<fileVars, memVars, run, auxVars, runVars, histVars, envVars>>

\* save_checkpoint called inside the for loop, after every record
WriteRecord_Saves(n) ==
    /\ tmpFile' = File(Append(tmpFile.data, [key |-> issues[idx], comments |-> n]))
    /\ written' = Append(written, [key |-> issues[idx], comments |-> n])
    /\ processed' = processed \cup {issues[idx]}
    /\ ckptFile' = Ckpt(startAt, processed \cup {issues[idx]})
    /\ saves' = saves + 1
    /\ idx' = idx + 1
    /\ pc' = "item"
    /\ gstate' = "idle"
    /\ attempt' = 0
    /\ resps' = <<>>
    /\ err' = "none"
    /\ UNCHANGED <<ckptTmp, outFile, bakFile, startAt, total, issues, run,
                   auxVars, static, ckptAtStart, pages, returned,
                   outAtStart, bakAtStart, tmpAtStart, stopped, finals, envVars>>

\* lines 196-201: build the record, append it, flush, mark the key processed
WriteRecord(n) ==
    /\ tmpFile' = File(Append(tmpFile.data, [key |-> issues[idx], comments |-> n]))
    /\ written' = Append(written, [key |-> issues[idx], comments |-> n])
    /\ processed' = processed \cup {issues[idx]}
    /\ idx' = idx + 1
    /\ pc' = "item"
    /\ gstate' = "idle"
    /\ attempt' = 0
    /\ resps' = <<>>
    /\ err' = "none"
    /\ UNCHANGED <<ckptFile, ckptTmp, outFile, bakFile, startAt, total, issues, run,
                   auxVars, runVars,
                   outAtStart, bakAtStart, tmpAtStart, stopped, finals, envVars>>

\* lines 112-121 and 196-201: the comments came back
CommentsOk ==
    /\ pc = "comment_get"
    /\ gstate = "returned"
    /\ WriteRecord(RemoteComments)

\* the exception of fetch_comments not caught: it ends the process
CommentsFail_Abort ==
    /\ pc = "comment_get"
    /\ gstate = "raised"
    /\ pc' = "failed"
    /\ gstate' = "idle"
    /\ attempt' = 0
    /\ resps' = <<>>
    /\ err' = "none"
    /\ UNCHANGED <<fileVars, memVars, run, auxVars, runVars, histVars, envVars>>

\* lines 193-201: the exception of fetch_comments is caught, comments stays []
CommentsFail ==
    /\ pc = "comment_get"
    /\ gstate = "raised"
    /\ WriteRecord(0)

\* startAt advanced by the page size asked for
Advance_PageSize(s, page) == s + Min(DEFAULT_MAX_RESULTS, ServerCap)

\* line 204: startAt += len(issues)
Advance(s, page) == s + Len(page)

\* lines 203-205 and 52: advance startAt, build the checkpoint, open the
\* temporary checkpoint file for writing (which truncates it)
PageDone ==
    /\ pc = "item"
    /\ idx > Len(issues)
    /\ startAt' = Advance(startAt, issues)
    /\ pages' = pages + 1
    /\ IF SaveTarget = "tmp"
       THEN ckptTmp' = PartialCkpt /\ UNCHANGED ckptFile
       ELSE ckptFile' = PartialCkpt /\ UNCHANGED ckptTmp
    /\ pc' = "save_dump"
    /\ UNCHANGED <<outFile, bakFile, tmpFile, processed, total, issues, idx, getVars,
                   run, auxVars, static, ckptAtStart, saves, returned, histVars,
                   envVars>>

\* line 53 and the end of the with block: the JSON is written and the file closed
SaveDump ==
    /\ pc = "save_dump"
    /\ IF SaveTarget = "tmp"
       THEN ckptTmp' = NewCheckpoint(startAt, processed) /\ UNCHANGED ckptFile
       ELSE ckptFile' = NewCheckpoint(startAt, processed) /\ UNCHANGED ckptTmp
    /\ pc' = "save_replace"
    /\ UNCHANGED <<outFile, bakFile, tmpFile, memVars, getVars, run, auxVars, runVars,
                   histVars, envVars>>

\* line 54: os.replace(fname + ".tmp", fname)
SaveReplace ==
    /\ pc = "save_replace"
    /\ IF SaveTarget = "tmp"
       THEN ckptFile' = ckptTmp /\ ckptTmp' = NoCkpt
       ELSE UNCHANGED <<ckptFile, ckptTmp>>
    /\ pc' = "stop_check"
    /\ saves' = saves + 1
    /\ UNCHANGED <<outFile, bakFile, tmpFile, memVars, getVars, run, auxVars, static,
                   ckptAtStart, pages, returned, histVars, envVars>>

\* the stop condition with > for >=
StopCondition_Strict(tot, s) == tot # NoTotal /\ s > tot

\* line 209: total is not None and startAt >= total
StopCondition(tot, s) == tot # NoTotal /\ s >= tot

\* lines 208-212: leave the loop, or sleep and fetch the next page
StopCheck ==
    /\ pc = "stop_check"
    /\ IF StopCondition(total, startAt)
       THEN /\ pc' = "finalize"
            /\ stopped' = TRUE
            /\ UNCHANGED getVars
       ELSE /\ pc' = "page_get"
            /\ stopped' = FALSE
            /\ gstate' = "running"
            /\ attempt' = 0
            /\ resps' = <<>>
            /\ err' = "none"
    /\ UNCHANGED <<fileVars, memVars, run, auxVars, runVars, envVars,
                   outAtStart, bakAtStart, tmpAtStart, written, finals>>

\* the existing output removed instead of moved to the backup
BackupOf_Drop(out, bak) == bak

\* what lines 216-217 leave at out_path + ".bak", given out_path and the backup
BackupOf(out, bak) == IF out.ex THEN out ELSE bak

\* lines 214-217: close the working file, move an existing output to the backup
FinalizeBackup ==
    /\ pc = "finalize"
    /\ bakFile' = BackupOf(outFile, bakFile)
    /\ outFile' = Absent
    /\ pc' = "fin_rename"
    /\ UNCHANGED <<ckptFile, ckptTmp, tmpFile, memVars, getVars, run, auxVars, runVars,
                   histVars, envVars>>

\* line 218: os.replace(out_tmp, out_path)
FinalizeRename ==
    /\ pc = "fin_rename"
    /\ outFile' = tmpFile
    /\ tmpFile' = Absent
    /\ finals' = finals + 1
    /\ pc' = "done"
    /\ UNCHANGED <<ckptFile, ckptTmp, bakFile, memVars, getVars, run, auxVars, runVars,
                   envVars,
                   outAtStart, bakAtStart, tmpAtStart, written, stopped>>

Running ==
    {"page_get", "item", "comment_get", "save_dump", "save_replace", "stop_check",
     "finalize", "fin_rename"}

\* the process is killed: its memory is gone, the files stay as they are.
\* startAt and processed keep the last values the process held.
Crash ==
    /\ pc \in Running
    /\ pc' = "crashed"
    /\ gstate' = "idle"
    /\ attempt' = 0
    /\ resps' = <<>>
    /\ err' = "none"
    /\ total' = NoTotal
    /\ issues' = <<>>
    /\ idx' = 0
    /\ UNCHANGED <<fileVars, startAt, processed, run, auxVars, runVars, histVars, envVars>>

Init ==
    /\ remote = <<>>
    /\ remoteTotal = NoTotal
    /\ ckptFile = NoCkpt
    /\ ckptTmp = NoCkpt
    /\ outFile = Absent
    /\ bakFile = Absent
    /\ tmpFile = Absent
    /\ pc = "idle"
    /\ startAt = 0
    /\ processed = {}
    /\ total = NoTotal
    /\ issues = <<>>
    /\ idx = 0
    /\ gstate = "idle"
    /\ attempt = 0
    /\ resps = <<>>
    /\ err = "none"
    /\ run = 0
    /\ outAtStart = Absent
    /\ bakAtStart = Absent
    /\ tmpAtStart = Absent
    /\ written = <<>>
    /\ stopped = FALSE
    /\ finals = 0
    /\ faults = 0
    /\ wait = 0
    /\ delay = 0
    /\ hdr = NoHeader
    /\ otherParity = 0
    /\ static = TRUE
    /\ ckptAtStart = load_checkpoint(NoCkpt)
    /\ saves = 0
    /\ pages = 0
    /\ returned = 0
    /\ pageCap = ServerCap

Next ==
    \/ StartRun
    \/ JiraGet
    \/ PageRecv
    \/ PageFail
    \/ ItemSkip
    \/ ItemFetch
    \/ CommentsOk
    \/ CommentsFail
    \/ PageDone
    \/ SaveDump
    \/ SaveReplace
    \/ StopCheck
    \/ FinalizeBackup
    \/ FinalizeRename
    \/ Crash

Spec == Init /\ [][Next]_vars

\* Before the first run, against a search endpoint with any page limit
InitPaged ==
    /\ remote = <<>>
    /\ remoteTotal = NoTotal
    /\ ckptFile = NoCkpt
    /\ ckptTmp = NoCkpt
    /\ outFile = Absent
    /\ bakFile = Absent
    /\ tmpFile = Absent
    /\ pc = "idle"
    /\ startAt = 0
    /\ processed = {}
    /\ total = NoTotal
    /\ issues = <<>>
    /\ idx = 0
    /\ gstate = "idle"
    /\ attempt = 0
    /\ resps = <<>>
    /\ err = "none"
    /\ run = 0
    /\ outAtStart = Absent
    /\ bakAtStart = Absent
    /\ tmpAtStart = Absent
    /\ written = <<>>
    /\ stopped = FALSE
    /\ finals = 0
    /\ faults = 0
    /\ wait = 0
    /\ delay = 0
    /\ hdr = NoHeader
    /\ otherParity = 0
    /\ static = TRUE
    /\ ckptAtStart = load_checkpoint(NoCkpt)
    /\ saves = 0
    /\ pages = 0
    /\ returned = 0
    /\ pageCap \in {1, ServerCap}

SpecPaged == InitPaged /\ [][Next]_vars

\* One caller issuing logical fetches through jira_get, one session.get at a time
InitGet ==
    /\ remote = <<>>
    /\ remoteTotal = NoTotal
    /\ ckptFile = NoCkpt
    /\ ckptTmp = NoCkpt
    /\ outFile = Absent
    /\ bakFile = Absent
    /\ tmpFile = Absent
    /\ pc = "get"
    /\ startAt = 0
    /\ processed = {}
    /\ total = NoTotal
    /\ issues = <<>>
    /\ idx = 0
    /\ gstate = "running"
    /\ attempt = 0
    /\ resps = <<>>
    /\ err = "none"
    /\ run = 0
    /\ outAtStart = Absent
    /\ bakAtStart = Absent
    /\ tmpAtStart = Absent
    /\ written = <<>>
    /\ stopped = FALSE
    /\ finals = 0
    /\ faults = 0
    /\ wait = 0
    /\ delay = 0
    /\ hdr = NoHeader
    /\ otherParity = 0
    /\ static = TRUE
    /\ ckptAtStart = load_checkpoint(NoCkpt)
    /\ saves = 0
    /\ pages = 0
    /\ returned = 0
    /\ pageCap = ServerCap

NextGet ==
    \/ GetAttempt
    \/ GetCall

SpecGet == InitGet /\ [][NextGet]_vars

\* line 172 under the assumption that the search endpoint answers in the end:
\* the call of jira_get for a page returns a parsed body
PageGetReturns ==
    /\ pc = "page_get"
    /\ gstate = "running"
    /\ gstate' = "returned"
    /\ err' = "none"
    /\ UNCHANGED <<pc, attempt, resps, fileVars, memVars, run, auxVars, runVars,
                   histVars, envVars>>

\* line 112: the call of jira_get for the comments ends, with a body or with
\* an exception
CommentGetEnds ==
    /\ pc = "comment_get"
    /\ JiraGet

\* lines 59-61 and 106-107 in the call of jira_get for the comments: the
\* response has a status below 400 other than 200, raise_for_status returns
\* and the loop issues the next request
CommentGetOther ==
    /\ pc = "comment_get"
    /\ gstate = "running"
    /\ GetStep("other", attempt).g = "running"
    /\ otherParity' = 1 - otherParity
    /\ UNCHANGED <<pc, getVars, fileVars, memVars, run, wait, delay, hdr, runVars,
                   histVars, envVars>>

\* A process that is never killed and whose page fetches return
NextLive ==
    \/ StartRun
    \/ PageGetReturns
    \/ CommentGetEnds
    \/ CommentGetOther
    \/ PageRecv
    \/ ItemSkip
    \/ ItemFetch
    \/ CommentsOk
    \/ CommentsFail
    \/ PageDone
    \/ SaveDump
    \/ SaveReplace
    \/ StopCheck
    \/ FinalizeBackup
    \/ FinalizeRename

\* the process keeps executing as long as it has a step to take
SpecLive == Init /\ [][NextLive]_vars /\ WF_vars(NextLive)

----------------------------------------------------------------------------
(* Properties *)

Retryable == {"neterr", "badjson", "429", "5xx"}

FinalizePcs == {"finalize", "fin_rename"}

Last(q) == q[Len(q)]

\* the processed keys and the offset a run would resume from
Persisted == load_checkpoint(ckptFile)

\* C1: a non-429 4xx response is never retried: it is the last response of its
\* logical fetch, jira_get raises on it, and when it is the first response the
\* fetch has issued exactly one request.
C1_ClientErrorNotRetried ==
    \A i \in 1..Len(resps) :
        resps[i] = "4xx" =>
            /\ i = Len(resps)
            /\ gstate = "raised"
            /\ err = "4xx"

C1_Witness ==
    /\ pc = "get"
    /\ gstate = "raised"
    /\ resps = <<"4xx">>

\* C2: over retryable outcomes only, a logical fetch issues at most
\* max_attempts requests.
C2_AtMostMaxAttempts ==
    (\A i \in 1..Len(resps) : resps[i] \in Retryable) => Len(resps) <= max_attempts

\* C3: an empty page is terminal whatever total says: the step that receives
\* it leaves the page loop, and from then on the only steps are those of
\* finalization (no request, no checkpoint change), which end with the working
\* file renamed to out_path.
C3_EmptyPageTerminal ==
    [][/\ (pc = "page_get" /\ gstate = "returned" /\ pc' # "crashed"
              /\ Page(remote, startAt, DEFAULT_MAX_RESULTS) = <<>>)
          => (pc' = "finalize" /\ issues' = <<>> /\ ckptFile' = ckptFile)
       /\ (pc \in FinalizePcs /\ issues = <<>>)
          => /\ ckptFile' = ckptFile
             /\ gstate' = gstate
             /\ pc = "finalize" => pc' \in {"finalize", "fin_rename", "crashed"}
             /\ pc = "fin_rename" => pc' \in {"fin_rename", "done", "crashed"}
             /\ pc' = "done" => (outFile' = tmpFile /\ ~tmpFile'.ex)]_vars

C3_Witness ==
    /\ pc = "done"
    /\ issues = <<>>
    /\ total # NoTotal
    /\ total > startAt
    /\ outFile.ex

\* C4 as stated: the scan stops only after fetching an empty page.
C4_StopsOnlyOnEmptyPage ==
    pc \in FinalizePcs => issues = <<>>

\* C4 as amended: total is also a stop signal. The scan leaves the page loop
\* after an empty page, or after a page's checkpoint is saved when total is
\* known and startAt >= total, and in no other case; it goes on to the next
\* page exactly when that condition is false. After either stop the run
\* requests no page and writes no record: the issues at startAt and beyond
\* stay unfetched in that run.
C4_StopOnEmptyPageOrTotal ==
    [][/\ (pc' = "finalize" /\ pc # "finalize")
          => (issues' = <<>> \/ (total' # NoTotal /\ startAt' >= total'))
       /\ (pc = "stop_check" /\ pc' = "page_get")
          => ~(total # NoTotal /\ startAt >= total)
       /\ (pc = "stop_check" /\ pc' = "finalize")
          => (total # NoTotal /\ startAt >= total)
       /\ pc \in FinalizePcs
          => /\ pc' \in FinalizePcs \cup {"done", "crashed"}
             /\ gstate' = gstate
             /\ written' = written
             /\ returned' = returned
             /\ startAt' = startAt
       /\ pc' \in FinalizePcs \cup {"done"}
          => KeysOf(written')
               \subseteq {remote'[i] : i \in 1..Min(Len(remote'), startAt')}]_vars

C4_Witness ==
    /\ pc = "done"
    /\ issues # <<>>
    /\ total # NoTotal
    /\ startAt >= total
    /\ startAt < Len(remote)

\* the issues among the first n of the page whose key the checkpoint the page
\* started from does not hold
NewOnPage(n) ==
    SelectSeq(SubSeq(issues, 1, n), LAMBDA k : k \notin Persisted.processed)

KeySeq(lines) == [i \in 1..Len(lines) |-> lines[i].key]

\* C5: an issue whose key is in processed is not written again and no comment
\* request is issued for it: while a page is processed, the lines appended for
\* it are exactly its issues that were not in processed, in page order.
C5_ProcessedNotRewritten ==
    /\ pc = "comment_get" => issues[idx] \notin processed
    /\ pc \in {"item", "comment_get"} =>
         LET new == NewOnPage(idx - 1)
             n == Len(tmpFile.data)
         IN /\ n >= Len(new)
            /\ KeySeq(SubSeq(tmpFile.data, n - Len(new) + 1, n)) = new
            /\ processed = Persisted.processed \cup {new[i] : i \in 1..Len(new)}

C5_Witness ==
    /\ pc = "item"
    /\ issues = <<"B", "C">>
    /\ idx = 3
    /\ Persisted.processed = {"B"}
    /\ written = <<[key |-> "C", comments |-> RemoteComments]>>

\* C6: a failed comment fetch does not end the page or the run: the record is
\* appended with no comments, the key is marked processed and the loop goes on
\* with the next issue of the page.
C6_CommentFailureDegrades ==
    [][(pc = "comment_get" /\ gstate = "raised" /\ pc' # "crashed")
          => /\ tmpFile' = File(Append(tmpFile.data,
                                       [key |-> issues[idx], comments |-> 0]))
             /\ processed' = processed \cup {issues[idx]}
             /\ issues' = issues
             /\ idx' = idx + 1
             /\ pc' = "item"]_vars

C6_Witness ==
    /\ pc = "item"
    /\ idx = 3
    /\ Len(written) = 2
    /\ written[1] = [key |-> issues[1], comments |-> 0]
    /\ written[2] = [key |-> issues[2], comments |-> RemoteComments]

\* C7 as stated: processed never loses a key and startAt never decreases, in
\* memory and on disk, also from a crashed run to the run that resumes.
C7_NeverShrinks ==
    [][/\ processed \subseteq processed'
       /\ startAt <= startAt'
       /\ Persisted.processed \subseteq Persisted'.processed
       /\ Persisted.startAt <= Persisted'.startAt]_vars

\* C7 as amended: the persisted checkpoint never loses a key and its offset
\* never decreases, over saves, crashes and resumes; in memory the same holds
\* within a run; a run starts from the persisted values, which the values in
\* memory always include.
C7_MonotoneOnDiskAndWithinRun ==
    [][/\ Persisted.processed \subseteq Persisted'.processed
       /\ Persisted.startAt <= Persisted'.startAt
       /\ run' = run => (processed \subseteq processed' /\ startAt <= startAt')
       /\ run' # run => (processed' = Persisted.processed
                         /\ startAt' = Persisted.startAt)
       /\ run' > 0 => (Persisted'.processed \subseteq processed'
                       /\ Persisted'.startAt <= startAt')]_vars

C7_Witness ==
    /\ run = 2
    /\ pc = "stop_check"
    /\ ~outFile.ex
    /\ Len(tmpAtStart.data) = 1
    /\ written # <<>>
    /\ written[1] = tmpAtStart.data[1]
    /\ Persisted.processed = processed

\* C8: the checkpoint file is never partially written: it changes only by the
\* rename of save_checkpoint, to the complete new checkpoint, so that at any
\* crash it is absent or a complete checkpoint that load_checkpoint can read.
C8_CheckpointAtomic ==
    [][/\ ckptFile'.st \in {"absent", "complete"}
       /\ Persisted'.ok
       /\ ckptFile' # ckptFile
          => (pc = "save_replace" /\ ckptFile' = Ckpt(startAt, processed))]_vars

C8_Witness ==
    /\ pc = "crashed"
    /\ ckptTmp.st = "partial"
    /\ ckptFile.st = "complete"

\* C9: finalization never deletes the output that was at out_path: its content
\* is at out_path or at the backup path at every step, at the backup path once
\* the run is done, and then out_path holds the working file; without an
\* output at out_path the backup path is left as it was.
C9_FinalizeKeepsOldOutput ==
    /\ outAtStart.ex => (outFile = outAtStart \/ bakFile = outAtStart)
    /\ ~outAtStart.ex => bakFile = bakAtStart
    /\ pc = "done" =>
         /\ outFile = File(tmpAtStart.data \o written)
         /\ ~tmpFile.ex
         /\ outAtStart.ex => bakFile = outAtStart

C9_Witness ==
    /\ pc = "done"
    /\ outAtStart.ex
    /\ outAtStart.data # <<>>
    /\ bakFile = outAtStart
    /\ outFile # outAtStart

\* C10 as stated: a run finalizes at most once and only after STOP, and a run
\* that ended by a crash or by the exception of a page fetch left out_path and
\* the backup as it found them and the working file with what it held plus
\* every line appended, in order.
C10_EndedRunLeavesOutput ==
    /\ finals <= 1
    /\ finals = 1 => (stopped /\ pc = "done")
    /\ pc \in {"crashed", "failed"} =>
         /\ outFile = outAtStart
         /\ bakFile = bakAtStart
         /\ tmpFile.data = tmpAtStart.data \o written
         /\ tmpFile.ex = tmpAtStart.ex

\* C10 as amended: a run finalizes at most once and only after STOP. As long
\* as the run has not reached STOP, also when it ended by a crash or by the
\* exception of a page fetch, out_path and the backup are as the run found
\* them and the working file holds what it held plus every line appended, in
\* order. A run killed after STOP and before the rename of the working file
\* leaves the working file the same way, and out_path and the backup either
\* as it found them or, killed between the two renames with an output from
\* before, out_path absent and that output at the backup.
C10_FinalizeOnlyAfterStop ==
    /\ finals <= 1
    /\ finals = 1 => (stopped /\ pc = "done")
    /\ pc = "done" => finals = 1
    /\ ~stopped =>
         /\ outFile = outAtStart
         /\ bakFile = bakAtStart
         /\ tmpFile.data = tmpAtStart.data \o written
         /\ tmpFile.ex = tmpAtStart.ex
    /\ pc \in {"crashed", "failed"} /\ stopped =>
         /\ tmpFile.data = tmpAtStart.data \o written
         /\ tmpFile.ex
         /\ \/ outFile = outAtStart /\ bakFile = bakAtStart
            \/ outAtStart.ex /\ outFile = Absent /\ bakFile = outAtStart

C10_Witness ==
    /\ pc = "crashed"
    /\ stopped
    /\ written # <<>>
    /\ outAtStart.ex
    /\ outFile = Absent
    /\ bakFile = outAtStart
    /\ tmpFile = File(tmpAtStart.data \o written)

RemoteKeys == {remote[i] : i \in 1..Len(remote)}

\* the remote reports no total or one that is not below the issues it returns
HonestTotal == remoteTotal = NoTotal \/ remoteTotal >= Len(remote)

Count(k, lines) == Cardinality({i \in 1..Len(lines) : lines[i].key = k})

\* C11 as stated: when the first run of a job completed and the second run
\* resumed from its checkpoint against the same remote and completed, the
\* keys of the lines the two runs wrote are together the keys of the remote.
C11_UnionIsRemote ==
    (run = 2 /\ static /\ outAtStart.ex /\ pc = "done")
        => KeysOf(outAtStart.data) \cup KeysOf(written) = RemoteKeys

\* C11 as amended: the lines of the first run followed by the lines of the
\* second are the issues of the remote from offset 0 on, in order, each once
\* and without a gap. They are all the issues of the remote when the reported
\* total is absent or not below their number (the first run wrote them all
\* and the second writes nothing) and when the second run ended on an empty
\* page; a second run that completes after a first that left issues
\* unwritten writes at least one of them.
C11_TwoRunsCoverRemote ==
    (run = 2 /\ static /\ outAtStart.ex)
        => LET both == KeySeq(outAtStart.data) \o KeySeq(written)
           IN /\ Len(both) <= Len(remote)
              /\ both = SubSeq(remote, 1, Len(both))
              /\ HonestTotal
                   => (KeySeq(outAtStart.data) = remote /\ written = <<>>)
              /\ (pc = "done" /\ issues = <<>>) => both = remote
              /\ (pc = "done" /\ KeySeq(outAtStart.data) # remote)
                   => written # <<>>

C11_Witness ==
    /\ run = 2
    /\ static
    /\ pc = "done"
    /\ remote = <<"A", "B", "C">>
    /\ remoteTotal = 1
    /\ KeySeq(outAtStart.data) = <<"A", "B">>
    /\ KeySeq(written) = <<"C">>

\* C12: a fresh job against a remote that reports total = n and returns n
\* issues ends with the n lines in remote order at out_path, the checkpoint at
\* startAt = n with all n keys, and no backup.
C12_FreshRunComplete ==
    (run = 1 /\ pc = "done" /\ remoteTotal = Len(remote))
        => /\ KeySeq(outFile.data) = remote
           /\ Persisted.startAt = Len(remote)
           /\ Persisted.processed = RemoteKeys
           /\ Len(remote) > 0 => ckptFile = Ckpt(Len(remote), RemoteKeys)
           /\ ~bakFile.ex
           /\ ~tmpFile.ex

C12_Witness ==
    /\ run = 1
    /\ pc = "done"
    /\ remote = <<"A", "B", "C">>
    /\ remoteTotal = 3
    /\ KeySeq(outFile.data) = remote
    /\ ckptFile = Ckpt(3, {"A", "B", "C"})

\* the keys the run before wrote after the last checkpoint it saved
Window == KeysOf(tmpAtStart.data) \ ckptAtStart.processed

\* C13 as stated: when the first run ended before finalizing and the second
\* run resumes against the same remote, the keys written after the last saved
\* checkpoint are fetched and appended again (two lines each once the run is
\* done), the keys of the saved checkpoint are not appended again, and once
\* the run is done every key of the remote has at least one line.
C13_EveryKeyHasALine ==
    (run = 2 /\ static /\ ~outAtStart.ex)
        => /\ KeysOf(written) \cap ckptAtStart.processed = {}
           /\ pages >= 1 => Window \subseteq KeysOf(written)
           /\ pc = "done" =>
                /\ \A k \in Window : Count(k, outFile.data) = 2
                /\ \A k \in ckptAtStart.processed : Count(k, outFile.data) = 1
                /\ RemoteKeys \subseteq KeysOf(outFile.data)

\* C13 as amended: the same, except that once the run is done the keys with
\* at least one line are the keys the job processed, those of the saved
\* checkpoint, which are the issues of the remote below the saved offset;
\* they are all the keys of the remote when the run ended on an empty page or
\* the reported total is absent or not below the number of issues.
C13_DuplicationWindow ==
    (run = 2 /\ static /\ ~outAtStart.ex)
        => /\ KeysOf(written) \cap ckptAtStart.processed = {}
           /\ pages >= 1 => Window \subseteq KeysOf(written)
           /\ pc = "done" =>
                /\ \A k \in Window : Count(k, outFile.data) = 2
                /\ \A k \in ckptAtStart.processed : Count(k, outFile.data) = 1
                /\ Persisted.processed \subseteq KeysOf(outFile.data)
                /\ Persisted.startAt <= Len(remote)
                /\ Persisted.processed
                     = {remote[i] : i \in 1..Persisted.startAt}
                /\ (issues = <<>> \/ HonestTotal)
                     => RemoteKeys \subseteq KeysOf(outFile.data)

C13_Witness ==
    /\ run = 2
    /\ static
    /\ pc = "done"
    /\ ckptAtStart.processed = {"A", "B"}
    /\ KeySeq(outFile.data) = <<"A", "B", "C", "C">>

\* min(cap, base * 2^k) with base = 1 and cap = 60, written out
MinCapPow(k) == IF 2^k <= 60 THEN 2^k ELSE 60

\* C14: after a 429 with Retry-After: n the wait is at least n + 1 seconds;
\* after a 429 without the header it is the backoff of the attempt index the
\* response came at, between half of it and all of it after jitter.
C14_RetryAfterHonoured ==
    (resps # <<>> /\ Last(resps) = "429")
        => /\ hdr.kind = "int" => (wait >= (hdr.n + 1) * 1000 /\ delay = 0)
           /\ hdr.kind = "none" =>
                /\ delay = MinCapPow(attempt - 1)
                /\ wait >= delay * 500
                /\ wait <= delay * 1000

C14_Witness ==
    /\ gstate = "running"
    /\ resps # <<>>
    /\ Last(resps) = "429"
    /\ hdr = [kind |-> "int", n |-> 5]
    /\ wait = 6000

\* C15: the delay before jitter at attempt index k is min(cap, base * 2^k); over
\* the indices a fetch reaches it never decreases, grows strictly below the
\* cap and stays at the cap.
C15_BackoffShape ==
    delay > 0 =>
        LET k == attempt - 1
        IN /\ k \in 0..max_attempts
           /\ delay = MinCapPow(k)
           /\ \A j \in 0..(k - 1) :
                /\ Backoff(j) <= Backoff(j + 1)
                /\ Backoff(j) < cap => Backoff(j) < Backoff(j + 1)
                /\ Backoff(j) = cap => Backoff(j + 1) = cap

C15_Witness ==
    /\ delay = cap
    /\ attempt = max_attempts + 1
    /\ Len(resps) = max_attempts + 1

\* C16: the checkpoint file changes only by the rename that ends
\* save_checkpoint, once after every non-empty page processed to the end and
\* never after an empty page: between pages the saves of a run are as many as
\* its non-empty pages.
C16_CheckpointPerPage ==
    [][/\ ckptFile' # ckptFile
          => /\ pc = "save_replace"
             /\ saves' = saves + 1
             /\ ckptFile' = Ckpt(startAt, processed)
       /\ saves' # saves /\ run' = run => ckptFile' # ckptFile
       /\ pages' # pages /\ run' = run
          => (pages' = pages + 1 /\ issues # <<>> /\ idx > Len(issues))
       /\ saves' <= pages'
       /\ pages' <= saves' + 1
       /\ pc' \in {"page_get", "item", "comment_get", "stop_check", "finalize",
                   "fin_rename", "done", "failed"} => saves' = pages']_vars

C16_Witness ==
    /\ pc = "done"
    /\ issues = <<>>
    /\ pages = 2
    /\ saves = 2

\* C17: a processed page advances startAt by the number of issues it returned,
\* written or skipped: at every page request startAt is the offset the run
\* started from plus the issues its pages returned, which for a job started
\* at offset 0 is the number of issues returned so far.
C17_OffsetCountsReturned ==
    /\ pc \in {"page_get", "save_dump", "save_replace", "stop_check", "finalize",
               "fin_rename", "done", "failed"}
         => startAt = ckptAtStart.startAt + returned
    /\ pc \in {"item", "comment_get"}
         => startAt + Len(issues) = ckptAtStart.startAt + returned

C17_Witness ==
    /\ pc = "page_get"
    /\ gstate = "running"
    /\ ckptAtStart.startAt = 1
    /\ returned = 2
    /\ startAt = 3
    /\ Len(written) = 1

\* C18: a logical fetch issues the next request only after it slept or used
\* one unit of the attempt budget, and so ends after a bounded number of
\* requests.
C18_EveryRequestPaysOrSleeps ==
    (gstate = "running" /\ resps # <<>>)
        => /\ wait > 0 \/ Len(resps) = attempt
           /\ Len(resps) <= max_attempts + 1

\* C19: whenever a run has finalized, out_path holds a line for every key of
\* the persisted checkpoint.
C19_OutputCoversProcessed ==
    pc = "done" => Persisted.processed \subseteq KeysOf(outFile.data)

\* C20: a process that is not killed and whose page fetches return reaches
\* STOP and finalizes.
C20_EventuallyFinalizes == <>(pc = "done")

====
